---- MODULE Spec2Model ----
(***************************************************************************)
(* The animation core of src/src/misc/lv_anim.c as a state machine.        *)
(*                                                                         *)
(* The program is single threaded, but every user callback may call back   *)
(* into the registry, so the model keeps the C call stack explicitly: one  *)
(* frame per running lv_anim_start / lv_anim_del / anim_timer / callback,  *)
(* each with its position (pc) and its locals.  Only the top frame steps.  *)
(*                                                                         *)
(* Records live in a heap of MaxRec blocks.  lv_free keeps the block's     *)
(* bytes (stale) and a later allocation may hand the same block out again, *)
(* so a pointer kept across a callback that released its record either     *)
(* reads stale bytes or aliases a younger record: both outcomes of the     *)
(* undefined behaviour are behaviours of the model.                        *)
(***************************************************************************)
EXTENDS Integers, Sequences, FiniteSets, TLC

(***************************************************************************)
(* Bounds of the model.                                                    *)
(***************************************************************************)
\* number of heap blocks that can hold an lv_anim_t
MaxRec == 3
\* how many callback frames may be on the call stack at once
MaxNest == 1
\* how many registry calls one callback invocation may make
MaxCbOps == 1
\* how many calls (start, delete, delete_all, timer run) one run makes in all,
\* with reentrant callbacks and with silent ones
MaxCalls == 5
MaxCallsLife == 4
MaxCallsEdge == 3
\* the same two bounds where callbacks re-enter without limit
MaxCallsRun == 2
MaxNestRun == 2
\* largest lv_tick_elaps() a record accumulates between two timer runs
MaxAge == 2

(***************************************************************************)
(* Program constants.                                                      *)
(***************************************************************************)
LV_ANIM_RESOLUTION == 1024
LV_ANIM_RES_SHIFT == 10
LV_ANIM_REPEAT_INFINITE == 65535
\* 0xFFFFFFFF, written as the int32_t with the same bits
LV_ANIM_PLAYTIME_INFINITE == -1
NULL == 0

(***************************************************************************)
(* int32_t arithmetic, which wraps modulo 2^32.  The operands are split    *)
(* into a signed high and an unsigned low half of 16 bits each, so that no *)
(* intermediate result leaves the range of a 32-bit integer.               *)
(***************************************************************************)
Half == 65536
Lo16(x) == x % Half
Hi16(x) == x \div Half
S16(h) == ((h + 32768) % Half) - 32768
Join32(h, l) == S16(h + (l \div Half)) * Half + (l % Half)

Add32(x, y) == Join32(Hi16(x) + Hi16(y), Lo16(x) + Lo16(y))
Sub32(x, y) == Join32(Hi16(x) - Hi16(y), Lo16(x) - Lo16(y))
\* k * y for a factor 0 <= k < 32768
MulSmall32(k, y) == Join32(k * Hi16(y), k * Lo16(y))
\* the quotient of C's `/`, which truncates toward zero
CDiv(x, y) ==
    IF (x >= 0) = (y > 0) \/ x % y = 0 THEN x \div y ELSE (x \div y) + 1

(***************************************************************************)
(* Values of the inputs.  Targets (`var`) are opaque handles: T1 and T2    *)
(* are user objects, TplAddr is the address of the caller's own template   *)
(* (the self-reference sentinel of lv_anim_start).  A record's address     *)
(* k in 1..MaxRec is itself a possible value of var after rebinding.       *)
(***************************************************************************)
T1 == 11
T2 == 12
TplAddr == 10
S1 == 1
S2 == 2
Addr == 1..MaxRec

\* lv_anim_init: the zeroed template with the documented defaults
lv_anim_init ==
    [ var |-> NULL, exec_cb |-> NULL,
      start_cb |-> FALSE, ready_cb |-> FALSE, deleted_cb |-> FALSE,
      get_value_cb |-> FALSE,
      start_value |-> 0, current_value |-> 0, end_value |-> 100,
      time |-> 500, act_time |-> 0,
      playback_delay |-> 0, playback_time |-> 0, repeat_delay |-> 0,
      repeat_cnt |-> 1,
      early_apply |-> 1, playback_now |-> 0, run_round |-> FALSE,
      start_cb_called |-> 0,
      last_timer_run |-> 0 ]

\* the bytes of a block that never held a record
ZeroRec == [lv_anim_init EXCEPT !.time = 0, !.end_value = 0, !.repeat_cnt = 0,
                                !.early_apply = 0]


(***************************************************************************)
(* State.                                                                  *)
(***************************************************************************)
VARIABLES
    anim_ll,            \* state.anim_ll: the addresses of the linked records, head first
    heap,               \* the bytes of every block (kept, stale, after lv_free)
    allocd,             \* the blocks currently allocated
    anim_run_round,     \* state.anim_run_round
    anim_list_changed,  \* state.anim_list_changed
    timer_paused,       \* whether state.timer is paused
    stack,              \* the C call stack, innermost frame last
    hist,               \* observation only: what happened to the record of each block
    ghost,              \* observation only: what happened in the running top-level call
    cfg,                \* the inputs the callers draw from (fixed by Init)
    ncalls              \* how many calls the application and its callbacks have made

vars == <<anim_ll, heap, allocd, anim_run_round, anim_list_changed, timer_paused,
          stack, hist, ghost, cfg, ncalls>>

\* saturation of the observation counters
MaxCount == 3
Inc(n) == IF n < MaxCount THEN n + 1 ELSE n

Hist0 ==
    [ tpl |-> ZeroRec, has_last |-> FALSE, last |-> 0, compl |-> 0, ready |-> 0,
      deleted |-> 0, adv |-> 0, born |-> FALSE, killed |-> FALSE,
      started |-> 0, nofs |-> 0, ofs |-> 0, prev_born |-> FALSE ]

Ghost0 == [ uaf |-> "none", reent |-> FALSE, rdydel |-> FALSE, trap |-> FALSE ]

Frame0 ==
    [ fn |-> "none", pc |-> "none", a |-> NULL, var |-> NULL, exec_cb |-> NULL,
      tpl |-> ZeroRec, elaps |-> 0, v_ofs |-> 0, del_any |-> FALSE,
      kind |-> "none", ops |-> 0, dang |-> FALSE,
      nset |-> 0, nget |-> 0, nrm |-> 0, ncb |-> 0,
      pre_ll |-> <<>>, pre_same |-> FALSE, pre_del |-> 0, fin_live |-> FALSE,
      n0 |-> 0, nadv |-> 0, nrst |-> 0, pre_heap |-> <<>> ]

Top == stack[Len(stack)]
WithTop(f) == [stack EXCEPT ![Len(stack)] = f]
Elems(s) == { s[i] : i \in DOMAIN s }
InTick == stack # <<>> /\ stack[1].fn = "tick"
CbDepth == Cardinality({ i \in DOMAIN stack : stack[i].fn = "cb" })

(***************************************************************************)
(* The collaborators the file calls: the linked list, the allocator, the   *)
(* timer and lv_map.                                                       *)
(***************************************************************************)
_lv_ll_get_head(ll) == IF ll = <<>> THEN NULL ELSE ll[1]

_lv_ll_get_next(ll, a) ==
    IF \E i \in 1..(Len(ll) - 1) : ll[i] = a
    THEN ll[(CHOOSE i \in 1..(Len(ll) - 1) : ll[i] = a) + 1]
    ELSE NULL

\* unlinking a node that is not linked (a stale pointer) leaves the list as it is
_lv_ll_remove(ll, a) == SelectSeq(ll, LAMBDA x : x # a)

_lv_ll_ins_head(ll, k) == <<k>> \o ll

lv_map(x, min_in, max_in, min_out, max_out) ==
    IF max_in >= min_in /\ x >= max_in THEN max_out
    ELSE IF max_in >= min_in /\ x <= min_in THEN min_out
    ELSE IF max_in <= min_in /\ x <= max_in THEN max_out
    ELSE IF max_in <= min_in /\ x >= min_in THEN min_out
    ELSE Add32(CDiv(MulSmall32(max_out - min_out, Sub32(x, min_in)),
                    Sub32(max_in, min_in)),
               min_out)

\* The blocks lv_malloc may return: the lowest free one, or a free one that a
\* running frame still points to (the block just released is handed out again).
AllocChoices ==
    LET free == Addr \ allocd
        held == { stack[i].a : i \in { j \in DOMAIN stack : stack[j].dang } }
    IN  IF free = {} THEN {}
        ELSE { CHOOSE k \in free : \A m \in free : k <= m } \cup (held \cap free)

\* lv_free(X): the frames whose record pointer is in X now hold a dangling pointer
MarkDang(stk, X) ==
    [ i \in DOMAIN stk |->
        IF stk[i].fn \in {"tick", "start"} /\ stk[i].a \in X
        THEN [stk[i] EXCEPT !.dang = TRUE] ELSE stk[i] ]

\* no frame is left: nothing points into the released blocks any more
Scrub(h, al) == [ k \in Addr |-> IF k \in al THEN h[k] ELSE ZeroRec ]
ScrubHist(h, al) == [ k \in Addr |-> IF k \in al THEN h[k] ELSE Hist0 ]

\* a driver that is never paused: what C8 rules out
mark_never_pauses(ll) == FALSE

(***************************************************************************)
(* anim_mark_list_change (lines 434-441): sets the flag, pauses the timer  *)
(* iff the list is empty.                                                  *)
(***************************************************************************)
anim_mark_list_change(ll) == _lv_ll_get_head(ll) = NULL

(***************************************************************************)
(* lv_anim_path_linear (lines 210-223).                                    *)
(***************************************************************************)
lv_anim_path_linear(a) ==
    LET step == lv_map(a.act_time, 0, a.time, 0, LV_ANIM_RESOLUTION)
        prod == MulSmall32(step, Sub32(a.end_value, a.start_value))
    IN  Add32(prod \div (2 ^ LV_ANIM_RES_SHIFT), a.start_value)

\* Signed overflow is undefined in C.  Line 218 overflows when step times the
\* difference leaves int32_t (the wrapped product is then not step times the
\* wrapped difference), the subtraction in it when the operands' signs differ
\* and the difference has the sign of the subtrahend, line 220 when the addends
\* have one sign and the sum the other.
path_overflows(a) ==
    LET step == lv_map(a.act_time, 0, a.time, 0, LV_ANIM_RESOLUTION)
        d == Sub32(a.end_value, a.start_value)
        prod == MulSmall32(step, d)
        sh == prod \div (2 ^ LV_ANIM_RES_SHIFT)
    IN  \/ (a.end_value >= 0) # (a.start_value >= 0) /\ (d >= 0) # (a.end_value >= 0)
        \/ step # 0 /\ ~(prod % step = 0 /\ prod \div step = d)
        \/ (sh >= 0) = (a.start_value >= 0)
              /\ (Add32(sh, a.start_value) >= 0) # (sh >= 0)

(***************************************************************************)
(* lv_anim_get (lines 167-177) and lv_anim_count_running (lines 184-191).  *)
(***************************************************************************)
lv_anim_get(var, exec_cb) ==
    LET hit == { i \in DOMAIN anim_ll :
                   heap[anim_ll[i]].var = var
                   /\ (heap[anim_ll[i]].exec_cb = exec_cb \/ exec_cb = NULL) }
    IN  IF hit = {} THEN NULL
        ELSE anim_ll[CHOOSE i \in hit : \A j \in hit : i <= j]

lv_anim_count_running == Len(anim_ll)

(***************************************************************************)
(* lv_anim_get_playtime (lines 115-134).  The sums stay far below 2^31 for *)
(* the records of the model, so the uint32_t arithmetic does not wrap.     *)
(***************************************************************************)
lv_anim_get_playtime(a) ==
    LET leg == (a.time - a.act_time)
               + (IF a.playback_now = 0 THEN a.playback_delay + a.playback_time ELSE 0)
    IN  IF a.repeat_cnt = LV_ANIM_REPEAT_INFINITE THEN LV_ANIM_PLAYTIME_INFINITE
        ELSE IF a.repeat_cnt <= 1 THEN leg
        ELSE leg + (a.repeat_delay + a.time + a.playback_delay + a.playback_time)
                   * (a.repeat_cnt - 1)


(***************************************************************************)
(* Who may call the registry: the application when nothing runs, or the    *)
(* callback on top of the stack.                                           *)
(***************************************************************************)
\* the calls of callbacks count against maxcalls unless cfg.cb_budget is off
Charged == cfg.cb_budget \/ stack = <<>>
Charge == IF Charged THEN ncalls + 1 ELSE ncalls

CanCall ==
    /\ Charged => ncalls < cfg.maxcalls
    /\ \/ stack = <<>>
       \/ /\ stack # <<>>
          /\ Top.fn = "cb"
          /\ cfg.reent
          /\ Top.ops < MaxCbOps
          /\ CbDepth <= cfg.maxnest

CallerStack == IF stack = <<>> THEN stack ELSE WithTop([Top EXCEPT !.ops = @ + 1])
GhostAtCall == IF stack = <<>> THEN Ghost0 ELSE [ghost EXCEPT !.reent = TRUE]

CbFrame(kind, a) == [Frame0 EXCEPT !.fn = "cb", !.pc = "cb_run", !.kind = kind, !.a = a]

\* whether a callback entered on top of stk could call the registry at all
CbCanAct(stk) ==
    /\ cfg.reent
    /\ cfg.cb_budget => ncalls < cfg.maxcalls
    /\ Cardinality({ i \in DOMAIN stk : stk[i].fn = "cb" }) < cfg.maxnest

\* The caller stk invokes callback f.  A callback that cannot call the registry
\* only returns, which leaves the caller at its continuation: no frame is kept
\* for it, except for get_value_cb, whose frame yields the returned offset.
InvokeCb(stk, f) ==
    IF CbCanAct(stk) \/ f.kind = "get_value" THEN Append(stk, f) ELSE stk

DelFrame(var, exec_cb) ==
    [Frame0 EXCEPT !.fn = "del", !.pc = "d_loop", !.var = var, !.exec_cb = exec_cb,
                   !.a = _lv_ll_get_head(anim_ll), !.pre_ll = anim_ll]

(***************************************************************************)
(* lv_anim_start (lines 78-113).                                           *)
(***************************************************************************)
Call_lv_anim_start(tpl) ==
    /\ CanCall
    /\ tpl \in (IF stack = <<>> THEN cfg.tpls ELSE cfg.cb_tpls)
    /\ stack' = Append(CallerStack,
                  [Frame0 EXCEPT !.fn = "start", !.pc = "s_del", !.tpl = tpl,
                                 !.pre_ll = anim_ll,
                                 !.pre_heap = heap,
                                 !.pre_same =
                                     /\ Len(anim_ll) = 1
                                     /\ hist[anim_ll[1]].tpl.var = tpl.var
                                     /\ hist[anim_ll[1]].tpl.exec_cb = tpl.exec_cb])
    /\ ghost' = GhostAtCall
    /\ UNCHANGED <<anim_ll, heap, allocd, anim_run_round, anim_list_changed,
                   timer_paused, hist, cfg>>
    /\ ncalls' = Charge

\* a start that keeps the old record: what C10 rules out when the allocation fails
start_keeps_old(tpl) == FALSE

\* line 83: an exec_cb of NULL would delete all animations of var
start_deletes_old(tpl) == tpl.exec_cb # NULL

start_del ==
    /\ stack # <<>> /\ Top.fn = "start" /\ Top.pc = "s_del"
    /\ stack' = IF start_deletes_old(Top.tpl)
                THEN Append(WithTop([Top EXCEPT !.pc = "s_ins"]),
                            DelFrame(Top.tpl.var, Top.tpl.exec_cb))
                ELSE WithTop([Top EXCEPT !.pc = "s_ins"])
    /\ UNCHANGED <<anim_ll, heap, allocd, anim_run_round, anim_list_changed,
                   timer_paused, hist, ghost, cfg, ncalls>>

\* a copy that leaves run_round as the template has it: what C16 rules out
start_copy_unmarked(tpl, k) ==
    [tpl EXCEPT !.var = IF tpl.var = TplAddr THEN k ELSE tpl.var,
                !.last_timer_run = 0]

\* lines 91-94: the copy of the template into the new block k
start_copy(tpl, k) ==
    [tpl EXCEPT !.var = IF tpl.var = TplAddr THEN k ELSE tpl.var,
                !.run_round = anim_run_round,
                !.last_timer_run = 0]

\* lines 86-94; k = NULL is _lv_ll_ins_head failing to allocate
start_ins ==
    /\ stack # <<>> /\ Top.fn = "start" /\ Top.pc = "s_ins"
    /\ \E k \in AllocChoices \cup {NULL} :
         IF k = NULL
         THEN /\ stack' = WithTop([Top EXCEPT !.pc = "s_ret", !.a = NULL])
              /\ UNCHANGED <<anim_ll, heap, allocd, hist>>
         ELSE /\ anim_ll' = _lv_ll_ins_head(anim_ll, k)
              /\ allocd' = allocd \cup {k}
              /\ heap' = [heap EXCEPT ![k] = start_copy(Top.tpl, k)]
              /\ hist' = [hist EXCEPT ![k] = [Hist0 EXCEPT !.tpl = Top.tpl,
                                                           !.born = InTick]]
              /\ stack' = WithTop([Top EXCEPT !.pc = "s_early", !.a = k])
    /\ UNCHANGED <<anim_run_round, anim_list_changed, timer_paused, ghost, cfg, ncalls>>

\* lines 97-99
start_early ==
    /\ stack # <<>> /\ Top.fn = "start" /\ Top.pc = "s_early"
    /\ LET new_anim == heap[Top.a] IN
         /\ stack' = IF new_anim.early_apply = 1 /\ new_anim.get_value_cb
                     THEN InvokeCb(WithTop([Top EXCEPT !.pc = "s_ofs", !.nget = Inc(@)]),
                                 CbFrame("get_value", Top.a))
                     ELSE IF new_anim.early_apply = 1
                     THEN WithTop([Top EXCEPT !.pc = "s_exec"])
                     ELSE WithTop([Top EXCEPT !.pc = "s_mark"])
         /\ hist' = IF new_anim.early_apply = 1 /\ new_anim.get_value_cb
                    THEN [hist EXCEPT ![Top.a].nofs = Inc(@)] ELSE hist
    /\ UNCHANGED <<anim_ll, heap, allocd, anim_run_round, anim_list_changed,
                   timer_paused, ghost, cfg, ncalls>>

\* lines 100-101, after get_value_cb returned v_ofs
start_ofs ==
    /\ stack # <<>> /\ Top.fn = "start" /\ Top.pc = "s_ofs"
    /\ heap' = [heap EXCEPT ![Top.a].start_value = Add32(@, Top.v_ofs),
                            ![Top.a].end_value = Add32(@, Top.v_ofs)]
    /\ hist' = [hist EXCEPT ![Top.a].ofs = Top.v_ofs]
    /\ ghost' = IF Top.dang THEN [ghost EXCEPT !.uaf = "start"] ELSE ghost
    /\ stack' = WithTop([Top EXCEPT !.pc = "s_exec"])
    /\ UNCHANGED <<anim_ll, allocd, anim_run_round, anim_list_changed,
                   timer_paused, cfg, ncalls>>

\* line 104
start_exec ==
    /\ stack # <<>> /\ Top.fn = "start" /\ Top.pc = "s_exec"
    /\ LET new_anim == heap[Top.a] IN
         IF new_anim.exec_cb # NULL /\ new_anim.var # NULL
         THEN /\ hist' = [hist EXCEPT ![Top.a].has_last = TRUE,
                                      ![Top.a].last = new_anim.start_value]
              /\ stack' = InvokeCb(WithTop([Top EXCEPT !.pc = "s_mark", !.nset = Inc(@)]),
                                 CbFrame("exec", Top.a))
         ELSE /\ stack' = WithTop([Top EXCEPT !.pc = "s_mark"])
              /\ UNCHANGED hist
    /\ ghost' = IF Top.dang THEN [ghost EXCEPT !.uaf = "start"] ELSE ghost
    /\ UNCHANGED <<anim_ll, heap, allocd, anim_run_round, anim_list_changed,
                   timer_paused, cfg, ncalls>>

\* line 109
start_mark ==
    /\ stack # <<>> /\ Top.fn = "start" /\ Top.pc = "s_mark"
    /\ anim_list_changed' = TRUE
    /\ timer_paused' = anim_mark_list_change(anim_ll)
    /\ stack' = WithTop([Top EXCEPT !.pc = "s_ret"])
    /\ UNCHANGED <<anim_ll, heap, allocd, anim_run_round, hist, ghost, cfg, ncalls>>

(***************************************************************************)
(* lv_anim_del (lines 136-159).                                            *)
(***************************************************************************)
Call_lv_anim_del(var, exec_cb) ==
    /\ CanCall
    /\ <<var, exec_cb>> \in (IF stack = <<>> THEN cfg.dels ELSE cfg.cb_dels)
    /\ stack' = Append(CallerStack, DelFrame(var, exec_cb))
    /\ ghost' = GhostAtCall
    /\ UNCHANGED <<anim_ll, heap, allocd, anim_run_round, anim_list_changed,
                   timer_paused, hist, cfg>>
    /\ ncalls' = Charge

\* a match without the NULL wildcards: what C9 rules out
del_matches_exact(a, var, exec_cb) == a.var = var /\ a.exec_cb = exec_cb

\* line 143
del_matches(a, var, exec_cb) ==
    (a.var = var \/ var = NULL) /\ (a.exec_cb = exec_cb \/ exec_cb = NULL)

\* lines 141-143 and 155: the scan from a to the first record that matches
del_first_match(ll, a, var, exec_cb) ==
    LET from == IF a = NULL THEN Len(ll) + 1
                ELSE CHOOSE i \in DOMAIN ll : ll[i] = a
        hit == { i \in from..Len(ll) : del_matches(heap[ll[i]], var, exec_cb) }
    IN  IF hit = {} THEN NULL ELSE ll[CHOOSE i \in hit : \A j \in hit : i <= j]

\* lines 141-145
del_loop ==
    /\ stack # <<>> /\ Top.fn = "del" /\ Top.pc = "d_loop"
    /\ LET m == del_first_match(anim_ll, Top.a, Top.var, Top.exec_cb) IN
       IF m = NULL
       THEN /\ stack' = WithTop([Top EXCEPT !.pc = "d_ret", !.a = NULL])
            /\ UNCHANGED <<anim_ll, hist, ghost>>
       ELSE /\ anim_ll' = _lv_ll_remove(anim_ll, m)
            /\ ghost' = IF \E i \in DOMAIN stack :
                               stack[i].fn = "cb" /\ stack[i].kind = "ready"
                        THEN [ghost EXCEPT !.rdydel = TRUE] ELSE ghost
            /\ IF heap[m].deleted_cb
               THEN /\ hist' = [hist EXCEPT ![m].killed = TRUE,
                                            ![m].deleted = Inc(@)]
                    /\ stack' = InvokeCb(WithTop([Top EXCEPT !.pc = "d_free",
                                                             !.a = m,
                                                             !.nrm = Inc(@),
                                                             !.ncb = Inc(@),
                                                             !.pre_del = hist[m].deleted]),
                                         CbFrame("deleted", m))
               ELSE /\ hist' = [hist EXCEPT ![m].killed = TRUE]
                    /\ stack' = WithTop([Top EXCEPT !.pc = "d_free", !.a = m,
                                                    !.nrm = Inc(@),
                                                    !.pre_del = hist[m].deleted])
    /\ UNCHANGED <<heap, allocd, anim_run_round, anim_list_changed, timer_paused, cfg, ncalls>>

\* lines 146-155 after a match
del_free ==
    /\ stack # <<>> /\ Top.fn = "del" /\ Top.pc = "d_free"
    /\ allocd' = allocd \ {Top.a}
    /\ anim_list_changed' = TRUE
    /\ timer_paused' = anim_mark_list_change(anim_ll)
    /\ stack' = MarkDang(WithTop([Top EXCEPT !.pc = "d_loop", !.del_any = TRUE,
                                             !.a = _lv_ll_get_head(anim_ll)]),
                         {Top.a})
    /\ UNCHANGED <<anim_ll, heap, anim_run_round, hist, ghost, cfg, ncalls>>

(***************************************************************************)
(* lv_anim_del_all (lines 161-165): _lv_ll_clear releases every linked     *)
(* node, no deleted_cb is called.                                          *)
(***************************************************************************)
lv_anim_del_all ==
    /\ CanCall
    /\ anim_ll' = <<>>
    /\ allocd' = allocd \ Elems(anim_ll)
    /\ anim_list_changed' = TRUE
    /\ timer_paused' = anim_mark_list_change(<<>>)
    /\ stack' = MarkDang(CallerStack, Elems(anim_ll))
    /\ ghost' = IF \E i \in DOMAIN stack : stack[i].fn = "cb" /\ stack[i].kind = "ready"
                THEN [GhostAtCall EXCEPT !.rdydel = anim_ll # <<>> \/ @]
                ELSE GhostAtCall
    /\ LET h == [ k \in Addr |-> IF k \in Elems(anim_ll)
                                 THEN [hist[k] EXCEPT !.killed = TRUE] ELSE hist[k] ]
       IN  IF stack = <<>>
           THEN /\ heap' = Scrub(heap, allocd')
                /\ hist' = ScrubHist(h, allocd')
           ELSE /\ heap' = heap
                /\ hist' = h
    /\ ncalls' = Charge
    /\ UNCHANGED <<anim_run_round, cfg>>


(***************************************************************************)
(* anim_timer (lines 321-382).  The periodic driver calls it while the     *)
(* timer is not paused; lv_anim_refr_now (lines 205-208) calls it at any   *)
(* time.                                                                   *)
(***************************************************************************)
TickFrame ==
    [Frame0 EXCEPT !.fn = "tick", !.pc = "t_loop", !.a = _lv_ll_get_head(anim_ll),
                   !.n0 = Len(anim_ll)]

\* lines 327-329
anim_timer_enter ==
    /\ stack = <<>>
    /\ ncalls < cfg.maxcalls
    /\ anim_run_round' = ~anim_run_round
    /\ stack' = <<TickFrame>>
    /\ ghost' = Ghost0
    /\ hist' = [ k \in Addr |-> [hist[k] EXCEPT !.adv = 0, !.born = FALSE,
                                                !.prev_born = hist[k].born] ]
    /\ UNCHANGED <<anim_ll, heap, allocd, anim_list_changed, timer_paused, cfg>>
    /\ ncalls' = ncalls + 1

TimerFires == ~timer_paused /\ anim_timer_enter

lv_anim_refr_now == anim_timer_enter

\* a tick step on a record that a callback released in the meantime
TickGhost(site) == IF Top.dang THEN [ghost EXCEPT !.uaf = site] ELSE ghost

\* a pass without the run_round mark: what C4 rules out
timer_runs_always(a, round) == TRUE

\* line 340
timer_runs_record(a, round) == a.run_round # round

\* lines 331-341
timer_loop ==
    /\ stack # <<>> /\ Top.fn = "tick" /\ Top.pc = "t_loop"
    /\ IF Top.a = NULL
       THEN /\ stack' = WithTop([Top EXCEPT !.pc = "t_ret"])
            /\ UNCHANGED <<heap, anim_list_changed, hist>>
       ELSE /\ anim_list_changed' = FALSE
            /\ IF timer_runs_record(heap[Top.a], anim_run_round)
               THEN /\ heap' = [heap EXCEPT ![Top.a].last_timer_run = 0,
                                            ![Top.a].run_round = anim_run_round]
                    /\ hist' = [hist EXCEPT ![Top.a].adv = Inc(@)]
                    /\ stack' = WithTop([Top EXCEPT !.pc = "t_start",
                                            !.nadv = Inc(@),
                                            !.elaps = heap[Top.a].last_timer_run])
               ELSE /\ heap' = [heap EXCEPT ![Top.a].last_timer_run = 0]
                    /\ hist' = hist
                    /\ stack' = WithTop([Top EXCEPT !.pc = "t_next",
                                            !.elaps = heap[Top.a].last_timer_run])
    /\ UNCHANGED <<anim_ll, allocd, anim_run_round, timer_paused, ghost, cfg, ncalls>>

\* a crossing test without the one-shot guard: what C14 rules out
timer_crosses_again(a, new_act_time) == a.act_time <= 0 /\ new_act_time >= 0

\* line 344
timer_crosses(a, new_act_time) ==
    a.start_cb_called = 0 /\ a.act_time <= 0 /\ new_act_time >= 0

\* a crossing that reads the offset whatever early_apply: what C15 rules out
timer_reads_offset_again(a) == a.get_value_cb

\* line 345
timer_reads_offset(a) == a.early_apply = 0 /\ a.get_value_cb

\* lines 344-347
timer_start ==
    /\ stack # <<>> /\ Top.fn = "tick" /\ Top.pc = "t_start"
    /\ LET a == heap[Top.a]
           new_act_time == Add32(a.act_time, Top.elaps)
           reads == timer_crosses(a, new_act_time) /\ timer_reads_offset(a)
       IN  /\ stack' =
                IF timer_crosses(a, new_act_time)
                THEN IF timer_reads_offset(a)
                     THEN InvokeCb(WithTop([Top EXCEPT !.pc = "t_ofs"]),
                                 CbFrame("get_value", Top.a))
                     ELSE WithTop([Top EXCEPT !.pc = "t_startcb"])
                ELSE WithTop([Top EXCEPT !.pc = "t_adv"])
           /\ hist' = IF reads THEN [hist EXCEPT ![Top.a].nofs = Inc(@)] ELSE hist
    /\ UNCHANGED <<anim_ll, heap, allocd, anim_run_round, anim_list_changed,
                   timer_paused, ghost, cfg, ncalls>>

\* lines 348-349, after get_value_cb returned v_ofs
timer_ofs ==
    /\ stack # <<>> /\ Top.fn = "tick" /\ Top.pc = "t_ofs"
    /\ heap' = [heap EXCEPT ![Top.a].start_value = Add32(@, Top.v_ofs),
                            ![Top.a].end_value = Add32(@, Top.v_ofs)]
    /\ hist' = [hist EXCEPT ![Top.a].ofs = Top.v_ofs]
    /\ ghost' = TickGhost("t_ofs")
    /\ stack' = WithTop([Top EXCEPT !.pc = "t_startcb"])
    /\ UNCHANGED <<anim_ll, allocd, anim_run_round, anim_list_changed,
                   timer_paused, cfg, ncalls>>

\* line 351
timer_startcb ==
    /\ stack # <<>> /\ Top.fn = "tick" /\ Top.pc = "t_startcb"
    /\ stack' = IF heap[Top.a].start_cb
                THEN InvokeCb(WithTop([Top EXCEPT !.pc = "t_called"]),
                            CbFrame("start", Top.a))
                ELSE WithTop([Top EXCEPT !.pc = "t_called"])
    /\ hist' = IF heap[Top.a].start_cb
               THEN [hist EXCEPT ![Top.a].started = Inc(@)] ELSE hist
    /\ ghost' = TickGhost("t_startcb")
    /\ UNCHANGED <<anim_ll, heap, allocd, anim_run_round, anim_list_changed,
                   timer_paused, cfg, ncalls>>

\* line 352
timer_called ==
    /\ stack # <<>> /\ Top.fn = "tick" /\ Top.pc = "t_called"
    /\ heap' = [heap EXCEPT ![Top.a].start_cb_called = 1]
    /\ ghost' = TickGhost("t_called")
    /\ stack' = WithTop([Top EXCEPT !.pc = "t_adv"])
    /\ UNCHANGED <<anim_ll, allocd, anim_run_round, anim_list_changed,
                   timer_paused, hist, cfg, ncalls>>

\* lines 354-365
timer_adv ==
    /\ stack # <<>> /\ Top.fn = "tick" /\ Top.pc = "t_adv"
    /\ LET a0 == heap[Top.a]
           a1 == [a0 EXCEPT !.act_time = Add32(@, Top.elaps)]
           a2 == IF a1.act_time > a1.time THEN [a1 EXCEPT !.act_time = a1.time] ELSE a1
           new_value == lv_anim_path_linear(a2)
       IN  IF a1.act_time >= 0
           THEN IF new_value # a2.current_value
                THEN /\ heap' = [heap EXCEPT ![Top.a] =
                                     [a2 EXCEPT !.current_value = new_value]]
                     /\ IF a2.exec_cb # NULL
                        THEN /\ hist' = [hist EXCEPT ![Top.a].has_last = TRUE,
                                                     ![Top.a].last = new_value]
                             /\ stack' = InvokeCb(WithTop([Top EXCEPT !.pc = "t_ready"]),
                                                CbFrame("exec", Top.a))
                        ELSE /\ hist' = hist
                             /\ stack' = WithTop([Top EXCEPT !.pc = "t_ready"])
                ELSE /\ heap' = [heap EXCEPT ![Top.a] = a2]
                     /\ hist' = hist
                     /\ stack' = WithTop([Top EXCEPT !.pc = "t_ready"])
           ELSE /\ heap' = [heap EXCEPT ![Top.a] = a1]
                /\ hist' = hist
                /\ stack' = WithTop([Top EXCEPT !.pc = "t_next"])
    /\ ghost' = TickGhost("t_adv")
    /\ UNCHANGED <<anim_ll, allocd, anim_run_round, anim_list_changed,
                   timer_paused, cfg, ncalls>>

\* line 368
timer_ready ==
    /\ stack # <<>> /\ Top.fn = "tick" /\ Top.pc = "t_ready"
    /\ stack' = IF heap[Top.a].act_time >= heap[Top.a].time
                THEN WithTop([Top EXCEPT !.pc = "r_begin"])
                ELSE WithTop([Top EXCEPT !.pc = "t_next"])
    /\ ghost' = TickGhost("t_ready")
    /\ UNCHANGED <<anim_ll, heap, allocd, anim_run_round, anim_list_changed,
                   timer_paused, hist, cfg, ncalls>>

\* lines 376-379
timer_next ==
    /\ stack # <<>> /\ Top.fn = "tick" /\ Top.pc = "t_next"
    /\ stack' = WithTop([Top EXCEPT !.pc = "t_loop", !.dang = FALSE,
                            !.nrst = IF anim_list_changed THEN Inc(@) ELSE @,
                            !.a = IF anim_list_changed
                                  THEN _lv_ll_get_head(anim_ll)
                                  ELSE _lv_ll_get_next(anim_ll, Top.a)])
    /\ UNCHANGED <<anim_ll, heap, allocd, anim_run_round, anim_list_changed,
                   timer_paused, hist, ghost, cfg, ncalls>>

(***************************************************************************)
(* anim_ready_handler (lines 389-432), called from line 369.               *)
(***************************************************************************)
\* lines 392-394
ready_decrements(a) ==
    a.playback_now = 0 /\ a.repeat_cnt > 0 /\ a.repeat_cnt # LV_ANIM_REPEAT_INFINITE

\* a handler that finishes the record one completion early: what C2 rules out
ready_terminal_early(a) ==
    a.repeat_cnt <= 1 /\ (a.playback_time = 0 \/ a.playback_now = 1)

\* line 399
ready_is_terminal(a) ==
    a.repeat_cnt = 0 /\ (a.playback_time = 0 \/ a.playback_now = 1)

\* a handler that leaves the finishing record linked: what C13 rules out
ready_keeps_linked(ll, a) == ll

\* line 403
ready_unlink(ll, a) == _lv_ll_remove(ll, a)

\* lines 414-430: the record restarts
ready_restart(a) ==
    IF a.playback_time # 0
    THEN [a EXCEPT !.act_time = IF a.playback_now = 0
                                THEN -a.playback_delay ELSE -a.repeat_delay,
                   !.playback_now = IF a.playback_now = 0 THEN 1 ELSE 0,
                   !.start_value = a.end_value,
                   !.end_value = a.start_value,
                   !.time = a.playback_time,
                   !.playback_time = a.time]
    ELSE [a EXCEPT !.act_time = -a.repeat_delay]

\* lines 392-408 and 414-430
ready_begin ==
    /\ stack # <<>> /\ Top.fn = "tick" /\ Top.pc = "r_begin"
    /\ LET a0 == heap[Top.a]
           a1 == IF ready_decrements(a0) THEN [a0 EXCEPT !.repeat_cnt = @ - 1] ELSE a0
       IN  IF ready_is_terminal(a1)
           THEN /\ heap' = [heap EXCEPT ![Top.a] = a1]
                /\ anim_ll' = ready_unlink(anim_ll, Top.a)
                /\ anim_list_changed' = TRUE
                /\ timer_paused' = anim_mark_list_change(anim_ll')
                /\ LET fin == [Top EXCEPT !.pc = "r_deleted",
                                          !.pre_del = hist[Top.a].deleted,
                                          !.fin_live = ~Top.dang /\ Top.a \in allocd]
                   IN  IF a1.ready_cb
                       THEN /\ hist' = [hist EXCEPT ![Top.a].compl = Inc(@),
                                                    ![Top.a].ready = Inc(@)]
                            /\ stack' = InvokeCb(WithTop(fin), CbFrame("ready", Top.a))
                       ELSE /\ hist' = [hist EXCEPT ![Top.a].compl = Inc(@)]
                            /\ stack' = WithTop(fin)
           ELSE /\ heap' = [heap EXCEPT ![Top.a] = ready_restart(a1)]
                /\ hist' = [hist EXCEPT ![Top.a].compl = Inc(@)]
                /\ stack' = WithTop([Top EXCEPT !.pc = "t_next"])
                /\ UNCHANGED <<anim_ll, anim_list_changed, timer_paused>>
    /\ ghost' = TickGhost("r_begin")
    /\ UNCHANGED <<allocd, anim_run_round, cfg, ncalls>>

\* line 409
ready_deleted ==
    /\ stack # <<>> /\ Top.fn = "tick" /\ Top.pc = "r_deleted"
    /\ IF heap[Top.a].deleted_cb
       THEN /\ hist' = [hist EXCEPT ![Top.a].deleted = Inc(@)]
            /\ stack' = InvokeCb(WithTop([Top EXCEPT !.pc = "r_free"]),
                               CbFrame("deleted", Top.a))
       ELSE /\ hist' = hist
            /\ stack' = WithTop([Top EXCEPT !.pc = "r_free"])
    /\ ghost' = TickGhost("r_deleted")
    /\ UNCHANGED <<anim_ll, heap, allocd, anim_run_round, anim_list_changed,
                   timer_paused, cfg, ncalls>>

\* line 410
ready_free ==
    /\ stack # <<>> /\ Top.fn = "tick" /\ Top.pc = "r_free"
    /\ allocd' = allocd \ {Top.a}
    /\ ghost' = IF Top.dang \/ Top.a \notin allocd
                THEN [ghost EXCEPT !.uaf = "r_free"] ELSE ghost
    /\ stack' = WithTop([Top EXCEPT !.pc = "t_next"])
    /\ UNCHANGED <<anim_ll, heap, anim_run_round, anim_list_changed,
                   timer_paused, hist, cfg, ncalls>>

(***************************************************************************)
(* A user callback: it may call the registry, then it returns.             *)
(* get_value_cb returns an offset.                                         *)
(***************************************************************************)
Offsets == {0, 1}

cb_return ==
    /\ stack # <<>> /\ Top.fn = "cb"
    /\ LET below == SubSeq(stack, 1, Len(stack) - 1)
           caller == below[Len(below)]
       IN  IF Top.kind = "get_value"
           THEN \E v \in Offsets :
                  stack' = [below EXCEPT ![Len(below)] = [caller EXCEPT !.v_ofs = v]]
           ELSE stack' = below
    /\ UNCHANGED <<anim_ll, heap, allocd, anim_run_round, anim_list_changed,
                   timer_paused, hist, ghost, cfg, ncalls>>

\* return of lv_anim_start, lv_anim_del or anim_timer to its caller
Return ==
    /\ stack # <<>> /\ Top.pc \in {"s_ret", "d_ret", "t_ret"}
    /\ stack' = SubSeq(stack, 1, Len(stack) - 1)
    /\ IF Len(stack) = 1
       THEN /\ heap' = Scrub(heap, allocd)
            /\ hist' = ScrubHist(hist, allocd)
       ELSE UNCHANGED <<heap, hist>>
    /\ UNCHANGED <<anim_ll, allocd, anim_run_round, anim_list_changed,
                   timer_paused, ghost, cfg, ncalls>>

(***************************************************************************)
(* The clock: lv_tick_elaps(a->last_timer_run) grows for every record.     *)
(***************************************************************************)
TimePasses(d) ==
    /\ stack = <<>>
    /\ anim_ll # <<>>
    /\ \A k \in allocd : heap[k].last_timer_run + d <= MaxAge
    /\ heap' = [ k \in Addr |-> IF k \in allocd
                                THEN [heap[k] EXCEPT !.last_timer_run = @ + d]
                                ELSE heap[k] ]
    /\ UNCHANGED <<anim_ll, allocd, anim_run_round, anim_list_changed,
                   timer_paused, stack, hist, ghost, cfg, ncalls>>


(***************************************************************************)
(* The templates the callers start and the arguments they delete with.     *)
(***************************************************************************)
Tpl(var, exec_cb) ==
    [lv_anim_init EXCEPT !.var = var, !.exec_cb = exec_cb, !.time = 1, !.end_value = 2]

\* reentrancy: records whose callbacks call back into the registry
TplA == [Tpl(T1, S1) EXCEPT !.start_cb = TRUE, !.ready_cb = TRUE, !.deleted_cb = TRUE]
TplB == [Tpl(T2, S1) EXCEPT !.early_apply = 0, !.get_value_cb = TRUE, !.time = 2]
TplC == [Tpl(TplAddr, S1) EXCEPT !.get_value_cb = TRUE]
TplD == [Tpl(T1, NULL) EXCEPT !.ready_cb = TRUE]

CfgReent ==
    [ tpls |-> {TplA, TplB, TplC, TplD},
      dels |-> {<<NULL, NULL>>, <<T1, S1>>, <<NULL, S1>>},
      cb_tpls |-> {TplA, TplB},
      cb_dels |-> {<<T1, S1>>, <<T2, NULL>>},
      reent |-> TRUE,
      cb_budget |-> TRUE,
      maxnest |-> MaxNest,
      maxcalls |-> MaxCalls ]

\* lifecycle: delays, repeats and playback, with callbacks that only return
TplL1 == [Tpl(T1, S1) EXCEPT !.time = 2, !.start_value = 5, !.end_value = 0,
                             !.ready_cb = TRUE, !.deleted_cb = TRUE]
TplL2 == [Tpl(T2, S1) EXCEPT !.repeat_cnt = 2, !.repeat_delay = 1, !.act_time = -1,
                             !.start_cb = TRUE, !.ready_cb = TRUE, !.deleted_cb = TRUE,
                             !.get_value_cb = TRUE]
TplL3 == [Tpl(T1, S2) EXCEPT !.time = 0, !.playback_time = 1, !.repeat_cnt = 2,
                             !.ready_cb = TRUE, !.deleted_cb = TRUE]
TplL4 == [Tpl(T2, S2) EXCEPT !.playback_time = 2, !.playback_delay = 1,
                             !.early_apply = 0, !.get_value_cb = TRUE,
                             !.start_cb = TRUE, !.ready_cb = TRUE, !.deleted_cb = TRUE]

CfgLife ==
    [ tpls |-> {TplL1, TplL2, TplL3, TplL4},
      dels |-> {<<T1, S1>>, <<T2, NULL>>},
      cb_tpls |-> {},
      cb_dels |-> {},
      reent |-> FALSE,
      cb_budget |-> TRUE,
      maxnest |-> MaxNest,
      maxcalls |-> MaxCallsLife ]

\* corner cases, with callbacks that only return: playback with two repeats,
\* and the null target
TplP == [TplL4 EXCEPT !.repeat_cnt = 2]
TplN == Tpl(NULL, S1)

CfgEdge ==
    [ tpls |-> {TplL1, TplL2, TplP, TplN},
      dels |-> {<<T1, S1>>, <<T2, NULL>>},
      cb_tpls |-> {},
      cb_dels |-> {},
      reent |-> FALSE,
      cb_budget |-> TRUE,
      maxnest |-> MaxNest,
      maxcalls |-> MaxCallsEdge ]

\* termination: callbacks call the registry as often as they are invoked, the
\* application makes MaxCallsRun calls
CfgRun ==
    [ tpls |-> {TplA, TplB, TplC},
      dels |-> {<<T1, S1>>},
      cb_tpls |-> {TplA},
      cb_dels |-> {<<T2, NULL>>},
      reent |-> TRUE,
      cb_budget |-> FALSE,
      maxnest |-> MaxNestRun,
      maxcalls |-> MaxCallsRun ]

\* _lv_anim_core_init (lines 58-65)
InitWith(c) ==
    /\ anim_ll = <<>>
    /\ heap = [ k \in Addr |-> ZeroRec ]
    /\ allocd = {}
    /\ anim_run_round = FALSE
    /\ anim_list_changed = FALSE
    /\ timer_paused = anim_mark_list_change(<<>>)
    /\ stack = <<>>
    /\ hist = [ k \in Addr |-> Hist0 ]
    /\ ghost = Ghost0
    /\ cfg = c
    /\ ncalls = 0

Init == InitWith(CfgReent)
InitLife == InitWith(CfgLife)
InitRun == InitWith(CfgRun)
InitEdge == InitWith(CfgEdge)

Next ==
    \/ \E tpl \in cfg.tpls : Call_lv_anim_start(tpl)
    \/ start_del
    \/ start_ins
    \/ start_early
    \/ start_ofs
    \/ start_exec
    \/ start_mark
    \/ \E d \in cfg.dels \cup cfg.cb_dels : Call_lv_anim_del(d[1], d[2])
    \/ del_loop
    \/ del_free
    \/ lv_anim_del_all
    \/ TimerFires
    \/ lv_anim_refr_now
    \/ timer_loop
    \/ timer_start
    \/ timer_ofs
    \/ timer_startcb
    \/ timer_called
    \/ timer_adv
    \/ timer_ready
    \/ timer_next
    \/ ready_begin
    \/ ready_deleted
    \/ ready_free
    \/ cb_return
    \/ Return
    \/ \E d \in 1..MaxAge : TimePasses(d)

(***************************************************************************)
(* The path function on its own: one record with any start_value,         *)
(* end_value, duration and elapsed time, to which lv_anim_path_linear is   *)
(* applied once, as line 360 does.                                         *)
(***************************************************************************)
\* longest duration of the record
MaxTime == 3
MinInt32 == -2147483647 - 1
MaxInt32 == 2147483647
\* around 0, around the 2^21 where 1024 * x leaves int32_t, and the extremes
PathValues == { MinInt32, -(2 ^ 21) - 1, -(2 ^ 21), -1, 0, 1, (2 ^ 21) - 1, 2 ^ 21,
                MaxInt32 }

CfgPath ==
    [ tpls |-> {}, dels |-> {}, cb_tpls |-> {}, cb_dels |-> {},
      reent |-> FALSE, cb_budget |-> TRUE, maxnest |-> MaxNest, maxcalls |-> 1 ]

InitPath ==
    /\ anim_ll = <<1>>
    /\ allocd = {1}
    /\ \E sv \in PathValues, ev \in PathValues, t \in 1..MaxTime :
         \E x \in 0..t :
           heap = [ k \in Addr |->
                      IF k = 1
                      THEN [Tpl(T1, S1) EXCEPT !.start_value = sv, !.end_value = ev,
                                               !.time = t, !.act_time = x]
                      ELSE ZeroRec ]
    /\ anim_run_round = FALSE
    /\ anim_list_changed = FALSE
    /\ timer_paused = anim_mark_list_change(<<1>>)
    /\ stack = <<>>
    /\ hist = [ k \in Addr |-> Hist0 ]
    /\ ghost = Ghost0
    /\ cfg = CfgPath
    /\ ncalls = 0

\* lines 360-363: new_value = a->path_cb(a), stored in current_value
path_call ==
    /\ ncalls < cfg.maxcalls
    /\ heap' = [heap EXCEPT ![1].current_value = lv_anim_path_linear(heap[1])]
    /\ ncalls' = ncalls + 1
    /\ UNCHANGED <<anim_ll, allocd, anim_run_round, anim_list_changed, timer_paused,
                   stack, hist, ghost, cfg>>

\* the same call in a build that traps on signed overflow
path_trap ==
    /\ ncalls < cfg.maxcalls
    /\ path_overflows(heap[1])
    /\ ghost' = [ghost EXCEPT !.trap = TRUE]
    /\ ncalls' = ncalls + 1
    /\ UNCHANGED <<anim_ll, heap, allocd, anim_run_round, anim_list_changed,
                   timer_paused, stack, hist, cfg>>

NextPath ==
    \/ path_call
    \/ path_trap

SpecPath == InitPath /\ [][NextPath]_vars

\* reentrant callbacks
Spec == Init /\ [][Next]_vars
\* silent callbacks, timing variety
SpecLife == InitLife /\ [][Next]_vars
\* silent callbacks, corner-case templates
SpecEdge == InitEdge /\ [][Next]_vars
\* callbacks that re-enter without limit; the program never stops in the middle
\* of a call, and the application goes on calling while it has calls to make
SpecRun == InitRun /\ [][Next]_vars /\ WF_vars(Next)


(***************************************************************************)
(* Claims.                                                                 *)
(***************************************************************************)
Idle == stack = <<>>
AtPc(fn, pc) == stack # <<>> /\ Top.fn = fn /\ Top.pc = pc
Linked == Elems(anim_ll)
\* the top-level call returns with no callback having called the registry
QuietReturn(fn, pc) == Len(stack) = 1 /\ AtPc(fn, pc) /\ ~ghost.reent

\* C1, first part: whenever no operation is in progress the registry holds at
\* most one record for each (target, setter) pair with a non-null setter.
C1_UniquePair ==
    Idle =>
      \A i, j \in DOMAIN anim_ll :
        (i # j /\ heap[anim_ll[i]].exec_cb # NULL)
          => ~ ( /\ heap[anim_ll[i]].var = heap[anim_ll[j]].var
                 /\ heap[anim_ll[i]].exec_cb = heap[anim_ll[j]].exec_cb )

\* a successful start, free of reentrant calls, whose registry held exactly the
\* record of an earlier start with the same template target and setter
C1_SecondStart ==
    /\ QuietReturn("start", "s_ret")
    /\ Top.a # NULL
    /\ Top.tpl.exec_cb # NULL
    /\ Top.pre_same

\* C1 as claimed: the registry holds at most one record per (target, setter) pair
\* with a non-null setter whenever no operation is in progress, and two
\* consecutive starts with the same target and the same non-null setter leave
\* count() equal to 1.
C1_Original ==
    /\ C1_UniquePair
    /\ C1_SecondStart => lv_anim_count_running = 1

(***************************************************************************)
(* C2                                                                      *)
(***************************************************************************)
\* block k holds a record started with a finite repeat_count N >= 1, a duration
\* > 0 and no playback, which nobody deleted
C2_Record(k) ==
    /\ k \in allocd
    /\ hist[k].tpl.repeat_cnt >= 1
    /\ hist[k].tpl.repeat_cnt # LV_ANIM_REPEAT_INFINITE
    /\ hist[k].tpl.time > 0
    /\ hist[k].tpl.playback_time = 0
    /\ ~hist[k].killed

\* C2: a record with finite repeat_count N, duration > 0 and no playback stays
\* in the registry, with neither ready_cb nor deleted_cb invoked, while it has
\* completed fewer than N times; it is removed at its Nth completion, where
\* ready_cb is invoked once, then deleted_cb once, and lv_anim_get no longer
\* finds it.
C2_RepeatN ==
    \A k \in Addr :
      C2_Record(k) =>
        IF k \in Linked
        THEN /\ hist[k].compl < hist[k].tpl.repeat_cnt
             /\ hist[k].ready = 0
             /\ hist[k].deleted = 0
        ELSE /\ hist[k].compl = hist[k].tpl.repeat_cnt
             /\ hist[k].ready = (IF hist[k].tpl.ready_cb THEN 1 ELSE 0)
             /\ hist[k].deleted =
                  (IF hist[k].tpl.deleted_cb /\ stack[1].pc = "r_free" THEN 1 ELSE 0)
             /\ lv_anim_get(heap[k].var, heap[k].exec_cb) # k
             /\ (heap[k].exec_cb # NULL /\ ~ghost.reent)
                  => lv_anim_get(heap[k].var, heap[k].exec_cb) = NULL

C2_Witness ==
    /\ AtPc("tick", "r_free")
    /\ C2_Record(Top.a)
    /\ hist[Top.a].tpl.repeat_cnt = 2
    /\ hist[Top.a].compl = 2
    /\ hist[Top.a].ready = 1
    /\ hist[Top.a].deleted = 1

(***************************************************************************)
(* C3                                                                      *)
(***************************************************************************)
\* C3 as claimed: for a record with playback configured, every leg completion
\* that leaves the record in the registry toggles playback_now and swaps
\* start_value with end_value and time with playback_time.
C3_Original ==
    [][ ( /\ AtPc("tick", "r_begin")
          /\ ~Top.dang
          /\ hist[Top.a].tpl.playback_time > 0
          /\ stack'[1].pc = "t_next" )
        => ( /\ heap'[Top.a].playback_now # heap[Top.a].playback_now
             /\ heap'[Top.a].start_value = heap[Top.a].end_value
             /\ heap'[Top.a].end_value = heap[Top.a].start_value
             /\ heap'[Top.a].time = heap[Top.a].playback_time
             /\ heap'[Top.a].playback_time = heap[Top.a].time ) ]_vars

(***************************************************************************)
(* C4                                                                      *)
(***************************************************************************)
\* C4: when a timer pass ends, every record that was in the registry when the
\* pass began and is still in it has been advanced exactly once in the pass,
\* and during the pass none has been advanced twice.
C4_AdvancedOnce ==
    /\ InTick => \A k \in Linked \cap allocd : ~hist[k].born => hist[k].adv <= 1
    /\ AtPc("tick", "t_ret") =>
         \A k \in Linked \cap allocd : ~hist[k].born => hist[k].adv = 1

\* a pass ends in which a ready_cb deleted another record and a record survived
C4_Witness ==
    /\ AtPc("tick", "t_ret")
    /\ ghost.rdydel
    /\ \E k \in Linked : ~hist[k].born /\ hist[k].adv = 1

(***************************************************************************)
(* C5                                                                      *)
(***************************************************************************)
\* C5 as claimed: the timer pass never reads, writes, finishes or releases a
\* record that a callback has released.
C5_Original ==
    ghost.uaf \notin {"t_ofs", "t_startcb", "t_called", "t_adv", "t_ready",
                      "r_begin", "r_deleted", "r_free"}

(***************************************************************************)
(* C6                                                                      *)
(***************************************************************************)
\* C6 as claimed: when a single-shot record (repeat_count 1, no playback,
\* duration > 0, linear path, setter bound, started with early_apply) is
\* removed on completion, the last value its setter received is end_value.
C6_Original ==
    ( /\ AtPc("tick", "r_deleted")
      /\ ~Top.dang
      /\ C2_Record(Top.a)
      /\ hist[Top.a].tpl.repeat_cnt = 1
      /\ hist[Top.a].tpl.exec_cb # NULL
      /\ hist[Top.a].tpl.var # NULL
      /\ hist[Top.a].tpl.early_apply = 1 )
    => ( hist[Top.a].has_last /\ hist[Top.a].last = heap[Top.a].end_value )

(***************************************************************************)
(* C7                                                                      *)
(***************************************************************************)
\* C7 as claimed: whenever no operation is in progress, for every live record
\* with a bound setter current_value is the value its setter received last.
C7_Original ==
    Idle =>
      \A k \in Linked :
        (heap[k].exec_cb # NULL /\ hist[k].has_last)
          => heap[k].current_value = hist[k].last

(***************************************************************************)
(* C8                                                                      *)
(***************************************************************************)
\* C8: after init and after every top-level call returns, the periodic driver
\* is paused if and only if the registry is empty.
C8_PausedIffEmpty == Idle => (timer_paused <=> anim_ll = <<>>)

\* the registry was emptied by a call during which a callback re-entered it
C8_Witness ==
    /\ Idle
    /\ ghost.reent
    /\ anim_ll = <<>>
    /\ timer_paused

(***************************************************************************)
(* C9                                                                      *)
(***************************************************************************)
\* C9: when lv_anim_del(var, exec_cb) returns, no record of the registry
\* matches; the call invoked the deleted_cb of every record it removed exactly
\* once (the record's count of deleted_cb invocations is one more than before
\* the removal, or the same when no deleted_cb is bound); the result is true iff
\* a record was removed, and a call that removed none left the registry as it
\* was and invoked no callback.
C9_Delete ==
    /\ AtPc("del", "d_ret") =>
         /\ \A k \in Linked :
              ~ ( /\ (heap[k].var = Top.var \/ Top.var = NULL)
                  /\ (heap[k].exec_cb = Top.exec_cb \/ Top.exec_cb = NULL) )
         /\ Top.del_any <=> Top.nrm > 0
         /\ Top.nrm = 0 => (anim_ll = Top.pre_ll /\ Top.ncb = 0)
    /\ \A i \in DOMAIN stack :
         (stack[i].fn = "del" /\ stack[i].pc = "d_free") =>
            hist[stack[i].a].deleted = (IF heap[stack[i].a].deleted_cb
                                        THEN Inc(stack[i].pre_del)
                                        ELSE stack[i].pre_del)

\* a top-level delete returns after removing two records, a deleted_cb having
\* called the registry meanwhile
C9_Witness ==
    /\ Len(stack) = 1
    /\ AtPc("del", "d_ret")
    /\ Top.del_any
    /\ Top.nrm >= 2
    /\ ghost.reent

MaxLegs == 8

\* The time that has to elapse before anim_ready_handler removes record a when
\* every tick lands exactly on a leg end: the rest of the current leg, then,
\* as long as the handler restarts the record, the whole of the next leg.
RECURSIVE time_to_removal(_, _)
time_to_removal(a, legs) ==
    LET a1 == IF ready_decrements(a) THEN [a EXCEPT !.repeat_cnt = @ - 1] ELSE a
        rest == IF legs = 0 THEN LV_ANIM_PLAYTIME_INFINITE
                ELSE time_to_removal(ready_restart(a1), legs - 1)
    IN  IF ready_is_terminal(a1) THEN a.time - a.act_time
        ELSE IF rest = LV_ANIM_PLAYTIME_INFINITE THEN LV_ANIM_PLAYTIME_INFINITE
        ELSE (a.time - a.act_time) + rest

\* C11 as claimed: whenever no operation is in progress, for every live record
\* with a finite repeat_cnt lv_anim_get_playtime returns the time that still
\* has to elapse before the record is removed.
C11_Original ==
    Idle =>
      \A k \in Linked \cap allocd :
        heap[k].repeat_cnt # LV_ANIM_REPEAT_INFINITE
          => lv_anim_get_playtime(heap[k]) = time_to_removal(heap[k], MaxLegs)

\* the same, for the records whose legs all have a duration > 0 (independent of C3)
C11_PositiveLegs ==
    Idle =>
      \A k \in Linked \cap allocd :
        (heap[k].repeat_cnt # LV_ANIM_REPEAT_INFINITE /\ hist[k].tpl.time > 0)
          => lv_anim_get_playtime(heap[k]) = time_to_removal(heap[k], MaxLegs)

(***************************************************************************)
(* C12                                                                     *)
(***************************************************************************)
\* the path function has been applied to the record of SpecPath
PathApplied == cfg = CfgPath /\ ncalls = 1

\* C12 as claimed: for every record with duration > 0 and every int32_t
\* start_value and end_value, lv_anim_path_linear returns start_value at
\* elapsed 0 and end_value at elapsed = duration.
C12_Original ==
    (PathApplied /\ heap[1].time > 0) =>
       /\ ~ghost.trap
       /\ heap[1].act_time = 0 => heap[1].current_value = heap[1].start_value
       /\ heap[1].act_time = heap[1].time => heap[1].current_value = heap[1].end_value

\* what does hold: the value at elapsed 0 is start_value, and the value at
\* elapsed = duration is end_value when end_value - start_value is in
\* -2^21 .. 2^21 - 1
C12_SmallRange ==
    (PathApplied /\ heap[1].time > 0 /\ ~ghost.trap) =>
       /\ heap[1].act_time = 0 => heap[1].current_value = heap[1].start_value
       /\ (heap[1].act_time = heap[1].time /\ ~path_overflows(heap[1]))
            => heap[1].current_value = heap[1].end_value

(***************************************************************************)
(* C13                                                                     *)
(***************************************************************************)
\* anim_ready_handler is finishing a record that was live when it began
Finishing(pcs) == InTick /\ stack[1].pc \in pcs /\ stack[1].fin_live

\* callback `kind` of the finishing record is running
CbOfFinishing(kind) ==
    /\ Len(stack) >= 2
    /\ stack[2].fn = "cb" /\ stack[2].kind = kind /\ stack[2].a = stack[1].a

\* C13: on terminal completion the record is unlinked, then ready_cb is
\* invoked, then deleted_cb, then the record is released: from the unlinking to
\* the release, whatever the two callbacks do, the record is allocated and not
\* linked, lv_anim_get with its var and exec_cb does not return it and
\* lv_anim_count_running does not count it; while ready_cb runs deleted_cb has
\* not been invoked, and when deleted_cb is invoked ready_cb has been.
C13_TerminalOrder ==
    Finishing({"r_deleted", "r_free"}) =>
      LET a == stack[1].a IN
        /\ a \notin Linked
        /\ a \in allocd
        /\ lv_anim_get(heap[a].var, heap[a].exec_cb) # a
        /\ lv_anim_count_running = Len(_lv_ll_remove(anim_ll, a))
        /\ stack[1].pc = "r_deleted" => hist[a].deleted = stack[1].pre_del
        /\ stack[1].pc = "r_free" =>
             /\ hist[a].deleted = (IF heap[a].deleted_cb THEN Inc(stack[1].pre_del)
                                   ELSE stack[1].pre_del)
             /\ heap[a].ready_cb => hist[a].ready >= 1

\* the deleted_cb of a finishing record runs, after its ready_cb started a
\* record with the same var and exec_cb, which lv_anim_get finds
C13_Witness ==
    /\ Finishing({"r_free"})
    /\ CbOfFinishing("deleted")
    /\ heap[stack[1].a].ready_cb
    /\ ghost.reent
    /\ lv_anim_get(heap[stack[1].a].var, heap[stack[1].a].exec_cb) \in Linked

\* C13 without the restriction to records that were live: the same for every
\* record the handler finishes
C13_AnyPointer ==
    (InTick /\ stack[1].pc \in {"r_deleted", "r_free"}) =>
        /\ stack[1].a \notin Linked
        /\ stack[1].a \in allocd

(***************************************************************************)
(* C14                                                                     *)
(***************************************************************************)
\* the tick is between the crossing test of record k and its advance
Crossing(k) ==
    /\ InTick
    /\ stack[1].a = k
    /\ stack[1].pc \in {"t_ofs", "t_startcb", "t_called", "t_adv"}
    /\ heap[k].act_time <= 0
    /\ Add32(heap[k].act_time, stack[1].elaps) >= 0

\* C14: start_cb is invoked at most once in the life of a record; when it has
\* been invoked the record is in, or past, the tick that took act_time from
\* <= 0 to >= 0 (never in a delay that no tick has ended); and once a record
\* with a start_cb has run (act_time > 0, or a leg completed) it has been
\* invoked, so that repeat cycles and playback legs, which reset act_time to
\* <= 0, find it invoked already.
C14_StartOnce ==
    \A k \in Linked \cap allocd :
      /\ hist[k].started <= 1
      /\ hist[k].started = 1 =>
           \/ Crossing(k)
           \/ heap[k].act_time >= 0
           \/ hist[k].compl >= 1
      /\ ( /\ heap[k].start_cb
           /\ hist[k].tpl.act_time <= 0
           /\ heap[k].act_time > 0 \/ hist[k].compl >= 1 )
         => hist[k].started = 1

\* a record with a start delay and a start_cb is in its second cycle, in the
\* tick that ends the repeat delay
C14_Witness ==
    /\ AtPc("tick", "t_adv")
    /\ Top.a \in Linked \cap allocd
    /\ heap[Top.a].start_cb
    /\ hist[Top.a].tpl.act_time < 0
    /\ hist[Top.a].compl = 1
    /\ heap[Top.a].act_time < 0
    /\ Add32(heap[Top.a].act_time, Top.elaps) >= 0
    /\ hist[Top.a].started = 1

(***************************************************************************)
(* C15                                                                     *)
(***************************************************************************)
\* lv_anim_start is still before line 99 for the record of block k
Creating(k) ==
    \E i \in DOMAIN stack :
      stack[i].fn = "start" /\ stack[i].a = k /\ stack[i].pc = "s_early"

\* C15: get_value_cb is read at most once in the life of a record: by
\* lv_anim_start when early_apply is set, otherwise in the tick that takes
\* act_time from <= 0 to >= 0, and not on repeats or playback legs; the
\* offset is added to both start_value and end_value, which are the template's
\* values moved by it (exchanged during a playback leg).
C15_OffsetOnce ==
    \A k \in Linked \cap allocd :
      LET t == hist[k].tpl
          sv == Add32(t.start_value, hist[k].ofs)
          ev == Add32(t.end_value, hist[k].ofs)
      IN  /\ hist[k].nofs <= 1
          /\ hist[k].nofs = 1 => t.get_value_cb
          /\ (t.get_value_cb /\ t.early_apply = 1 /\ ~Creating(k)) => hist[k].nofs = 1
          /\ (hist[k].nofs = 1 /\ t.early_apply = 0) =>
               \/ Crossing(k)
               \/ heap[k].act_time >= 0
               \/ hist[k].compl >= 1
          /\ ( /\ t.get_value_cb /\ t.early_apply = 0 /\ t.act_time <= 0
               /\ heap[k].act_time > 0 \/ hist[k].compl >= 1 )
             => hist[k].nofs = 1
          /\ hist[k].nofs = 0 => hist[k].ofs = 0
          /\ IF heap[k].playback_now = 0
             THEN heap[k].start_value = sv /\ heap[k].end_value = ev
             ELSE heap[k].start_value = ev /\ heap[k].end_value = sv

\* a record that read a non-zero offset in its first crossing tick ends its
\* playback delay
C15_Witness ==
    /\ AtPc("tick", "t_adv")
    /\ Top.a \in Linked \cap allocd
    /\ hist[Top.a].tpl.get_value_cb
    /\ hist[Top.a].tpl.early_apply = 0
    /\ hist[Top.a].nofs = 1
    /\ hist[Top.a].ofs # 0
    /\ heap[Top.a].playback_now = 1
    /\ heap[Top.a].act_time < 0
    /\ Add32(heap[Top.a].act_time, Top.elaps) >= 0

(***************************************************************************)
(* C16                                                                     *)
(***************************************************************************)
\* C16: a record that a callback started while a pass runs is not advanced in
\* that pass (it does not pass the run_round test, and its act_time and
\* current_value are those of its template as long as the pass has not written
\* through a released pointer); it has been advanced once when the next pass
\* ends; and no record is advanced twice in one pass.
C16_NewRecordWaits ==
    InTick =>
      \A k \in Linked \cap allocd :
        /\ hist[k].born => hist[k].adv = 0
        /\ (hist[k].born /\ ghost.uaf = "none") =>
             /\ heap[k].act_time = hist[k].tpl.act_time
             /\ heap[k].current_value = hist[k].tpl.current_value
        /\ hist[k].adv <= 1
        /\ (stack[1].pc = "t_ret" /\ hist[k].prev_born /\ ~hist[k].born)
             => hist[k].adv = 1

\* a pass ends that advanced a record started by a callback of the pass before,
\* a callback of this pass having changed the list again
C16_Witness ==
    /\ AtPc("tick", "t_ret")
    /\ ghost.reent
    /\ \E k \in Linked \cap allocd :
         hist[k].prev_born /\ ~hist[k].born /\ hist[k].adv = 1

(***************************************************************************)
(* C17                                                                     *)
(***************************************************************************)
\* a call of lv_anim_del by the application is running
DelRunning == stack # <<>> /\ stack[1].fn = "del"

\* C17 as claimed: every call of lv_anim_del returns, also when the
\* deleted_cb of a removed record starts a record with the same var, exec_cb
\* and deleted_cb.
C17_Original == DelRunning ~> ~DelRunning

(***************************************************************************)
(* C18                                                                     *)
(***************************************************************************)
\* the bound of C18: in a pass, the restarts from the head are at most as many
\* as the records advanced, and these at most as many as the records linked
\* when the pass began
C18_RestartBound ==
    InTick => /\ stack[1].nrst <= stack[1].nadv
              /\ stack[1].nadv <= stack[1].n0

\* C18 as claimed: every pass of anim_timer ends when callbacks call
\* lv_anim_start, lv_anim_del or lv_anim_del_all, the restarts from the head
\* being bounded as above.
C18_Original == (InTick ~> ~InTick) /\ []C18_RestartBound

(***************************************************************************)
(* C19                                                                     *)
(***************************************************************************)
\* the records linked when the running lv_anim_start was called whose var or
\* exec_cb differs from the template's
C19_Others ==
    { k \in Elems(Top.pre_ll) :
        ~ ( /\ Top.pre_heap[k].var = Top.tpl.var
            /\ Top.pre_heap[k].exec_cb = Top.tpl.exec_cb ) }

\* C19 as claimed: when lv_anim_start returns, no callback having called the
\* registry, every record whose var or exec_cb differs from the template's is
\* still linked and unchanged, for every template var including NULL.
C19_Original ==
    QuietReturn("start", "s_ret") =>
      \A k \in C19_Others : k \in Linked /\ heap[k] = Top.pre_heap[k]

\* what does hold: the same for templates whose var is not NULL
C19_NonNullTarget ==
    (QuietReturn("start", "s_ret") /\ Top.tpl.var # NULL) =>
      \A k \in C19_Others : k \in Linked /\ heap[k] = Top.pre_heap[k]

(***************************************************************************)
(* C20                                                                     *)
(***************************************************************************)
\* C20 as claimed: when lv_anim_start returns NULL because the allocation
\* failed, the registry is the one of before the call: the same records are
\* linked, none has been removed and no deleted_cb has been invoked.
C20_Original ==
    (AtPc("start", "s_ret") /\ Top.a = NULL) =>
       /\ anim_ll = Top.pre_ll
       /\ \A k \in Elems(Top.pre_ll) :
            /\ k \in allocd
            /\ heap[k] = Top.pre_heap[k]
            /\ hist[k].deleted = 0

\* what does hold: the failing call has removed exactly the records line 83
\* deletes, and left the others linked and unchanged
C20_OnlyMatches ==
    (AtPc("start", "s_ret") /\ Top.a = NULL) =>
       /\ anim_ll = SelectSeq(Top.pre_ll,
                      LAMBDA k : ~ ( /\ start_deletes_old(Top.tpl)
                                     /\ del_matches(Top.pre_heap[k], Top.tpl.var,
                                                     Top.tpl.exec_cb) ))
       /\ \A k \in Linked : heap[k] = Top.pre_heap[k] /\ hist[k].deleted = 0

====
